---- MODULE Spec2Model ----
(***************************************************************************)
(* The chat turn pipeline of rag_streamlit_app.py: startup, the session's  *)
(* conversation, and one turn of render_floating_chat as the sequence of   *)
(* its blocking remote calls (synthesis completion, optional embedding,    *)
(* store query, interpretation completion) with the except block at the    *)
(* turn boundary.                                                          *)
(*                                                                         *)
(* Text that the code inspects (the model's reply, the query) is a         *)
(* sequence of one-character strings, so that strip(), upper(),            *)
(* startswith() and the "in" substring test are computed on characters.    *)
(* Text the code only passes along (user prompts, final answers) is an     *)
(* opaque string.                                                          *)
(***************************************************************************)
EXTENDS Integers, Sequences, FiniteSets, TLC

(***************************************************************************)
(* Bounds of the model.                                                    *)
(***************************************************************************)
MaxTurns == 3

\* turns of the long session, in which the conversation outgrows the window
MaxLongTurns == 6

\* python's None, as a value of the same shape as a text; in a text, the
\* one-character string of the grave accent is written "<backtick>"
None == << "<None>" >>

(***************************************************************************)
(* Python string operations, on sequences of characters.                   *)
(***************************************************************************)
Whitespace == {" ", "\t", "\n", "\r"}

LowerLetters ==
  << "a", "b", "c", "d", "e", "f", "g", "h", "i", "j", "k", "l", "m",
     "n", "o", "p", "q", "r", "s", "t", "u", "v", "w", "x", "y", "z" >>

UpperLetters ==
  << "A", "B", "C", "D", "E", "F", "G", "H", "I", "J", "K", "L", "M",
     "N", "O", "P", "Q", "R", "S", "T", "U", "V", "W", "X", "Y", "Z" >>

\* str.upper() on one character
UpperChar(ch) ==
  IF \E i \in 1..26 : LowerLetters[i] = ch
  THEN UpperLetters[CHOOSE i \in 1..26 : LowerLetters[i] = ch]
  ELSE ch

\* str.upper()
Upper(s) ==
  [i \in 1..Len(s) |-> UpperChar(s[i])]

\* str.strip(): drop leading and trailing whitespace
Strip(s) ==
  LET keep == {i \in 1..Len(s) : s[i] \notin Whitespace}
  IN  IF keep = {} THEN << >>
      ELSE LET lo == CHOOSE i \in keep : \A j \in keep : i <= j
               hi == CHOOSE i \in keep : \A j \in keep : j <= i
           IN  SubSeq(s, lo, hi)

\* str.startswith(prefix)
StartsWith(s, prefix) ==
  /\ Len(prefix) <= Len(s)
  /\ SubSeq(s, 1, Len(prefix)) = prefix

\* python's "sub in s" on strings
Contains(s, sub) ==
  \E i \in 1..(Len(s) - Len(sub) + 1) : SubSeq(s, i, i + Len(sub) - 1) = sub

\* the 10 of chat_history[-10:]
WindowSize == 10

\* a window cut from the wrong end: lst[:10]
LastTen_fromStart(lst) ==
  IF Len(lst) <= WindowSize THEN lst ELSE SubSeq(lst, 1, WindowSize)

\* lst[-10:]
LastTen(lst) ==
  IF Len(lst) <= WindowSize
  THEN lst
  ELSE SubSeq(lst, Len(lst) - WindowSize + 1, Len(lst))

(***************************************************************************)
(* Literals of the program.                                                *)
(***************************************************************************)
SELECT ==
  <<
      "S", "E", "L", "E", "C", "T" >>

VectorDistance ==
  <<
      "V", "e", "c", "t", "o", "r", "D", "i", "s", "t", "a", "n", "c", "e" >>

ParamName ==
  <<
      "@", "q", "u", "e", "r", "y", "_", "v", "e", "c", "t", "o", "r" >>

\* prompts.py, final instruction: the string the model is told to return
\* when it cannot generate a query
FailureString ==
  <<
      "S", "E", "L", "E", "C", "T", " ", "'", "Q", "u", "e", "r", "y", " ",
      "g", "e", "n", "e", "r", "a", "t", "i", "o", "n", " ", "f", "a", "i",
      "l", "e", "d", ":", " ", "T", "h", "e", " ", "q", "u", "e", "s", "t",
      "i", "o", "n", " ", "i", "s", " ", "t", "o", "o", " ", "c", "o", "m",
      "p", "l", "e", "x", " ", "o", "r", " ", "a", "m", "b", "i", "g", "u",
      "o", "u", "s", ".", "'" >>

Greeting ==
  "Ask me anything! For example: 'How many events happened today?' or 'Tell me about climate change protests.'"

DegradedAnswer ==
  "Sorry, I encountered an error while processing your request."

(***************************************************************************)
(* Inputs: what the user types and what the remote services reply.         *)
(***************************************************************************)
Prompts == {"How many events happened today?", "Tell me about protests"}

OutAggregate ==
  <<
      "S", "E", "L", "E", "C", "T", " ", "V", "A", "L", "U", "E", " ", "C",
      "O", "U", "N", "T", "(", "1", ")", " ", "F", "R", "O", "M", " ", "c" >>

OutVector ==
  <<
      "S", "E", "L", "E", "C", "T", " ", "T", "O", "P", " ", "5", " ", "c",
      ".", "i", "d", " ", "F", "R", "O", "M", " ", "c", " ", "O", "R", "D",
      "E", "R", " ", "B", "Y", " ", "V", "e", "c", "t", "o", "r", "D", "i",
      "s", "t", "a", "n", "c", "e", "(", "c", ".", "c", "o", "n", "t", "e",
      "n", "t", "V", "e", "c", "t", "o", "r", ",", " ", "@", "q", "u", "e",
      "r", "y", "_", "v", "e", "c", "t", "o", "r", ")" >>

OutVectorOtherName ==
  <<
      "s", "e", "l", "e", "c", "t", " ", "c", ".", "i", "d", " ", "f", "r",
      "o", "m", " ", "c", " ", "o", "r", "d", "e", "r", " ", "b", "y", " ",
      "V", "e", "c", "t", "o", "r", "D", "i", "s", "t", "a", "n", "c", "e",
      "(", "c", ".", "c", "o", "n", "t", "e", "n", "t", "V", "e", "c", "t",
      "o", "r", ",", " ", "@", "v", "e", "c", ")" >>

OutLowerFunction ==
  <<
      "S", "E", "L", "E", "C", "T", " ", "c", ".", "i", "d", " ", "F", "R",
      "O", "M", " ", "c", " ", "O", "R", "D", "E", "R", " ", "B", "Y", " ",
      "v", "e", "c", "t", "o", "r", "d", "i", "s", "t", "a", "n", "c", "e",
      "(", "c", ".", "c", "o", "n", "t", "e", "n", "t", "V", "e", "c", "t",
      "o", "r", ",", " ", "@", "q", "u", "e", "r", "y", "_", "v", "e", "c",
      "t", "o", "r", ")" >>

OutPadded ==
  <<
      "\n", " ", "S", "E", "L", "E", "C", "T", " ", "*", " ", "F", "R", "O",
      "M", " ", "c", " ", "\n" >>

OutPrefixed ==
  <<
      "H", "e", "r", "e", " ", "i", "s", " ", "y", "o", "u", "r", " ", "q",
      "u", "e", "r", "y", ":", " ", "S", "E", "L", "E", "C", "T", " ", "*",
      " ", "F", "R", "O", "M", " ", "c" >>

OutFenced ==
  <<
      "<backtick>", "<backtick>", "<backtick>", "s", "q", "l", "\n", "S", "E", "L", "E", "C", "T", " ",
      "*", " ", "F", "R", "O", "M", " ", "c", "\n", "<backtick>", "<backtick>", "<backtick>" >>

OutSelected ==
  <<
      "S", "E", "L", "E", "C", "T", "E", "D", " ", "3", " ", "e", "v", "e",
      "n", "t", "s" >>

OutMutating ==
  <<
      "S", "E", "L", "E", "C", "T", " ", "*", " ", "F", "R", "O", "M", " ",
      "c", ";", " ", "D", "E", "L", "E", "T", "E", " ", "F", "R", "O", "M",
      " ", "c" >>

OutDelete ==
  <<
      "D", "E", "L", "E", "T", "E", " ", "F", "R", "O", "M", " ", "c" >>

OutEmpty ==
  <<>>

\* response.choices[0].message.content of the synthesis completion
ModelOutputs ==
  { OutAggregate, OutVector, OutVectorOtherName, OutLowerFunction, OutPadded,
    OutPrefixed, OutFenced, OutSelected, OutMutating, OutDelete, OutEmpty,
    FailureString, None }

\* .data[0].embedding of the embedding response
Embeddings == {"embedding"}

\* list(container.query_items(...))
ResultSets == { << >>, << "row" >> }

\* response.choices[0].message.content of the interpretation completion
Answers == {"There were 42 events.", "No data was found."}

\* What the except block looks at in the exception it caught: whether it has
\* a body attribute, and that attribute's type and truth value.
Bodies ==
  { [type |-> "NoneType", truthy |-> FALSE],
    [type |-> "dict", truthy |-> TRUE],
    [type |-> "dict", truthy |-> FALSE],
    [type |-> "str", truthy |-> TRUE],
    [type |-> "str", truthy |-> FALSE] }

NoBody == [type |-> "NoneType", truthy |-> FALSE]

Exceptions ==
  { [has_body |-> FALSE, body |-> NoBody] } \cup
  { [has_body |-> TRUE, body |-> b] : b \in Bodies }

\* ValueError of generate_cosmos_sql, AttributeError of None.strip()
ValueError == [has_body |-> FALSE, body |-> NoBody]

AttributeError == [has_body |-> FALSE, body |-> NoBody]

(***************************************************************************)
(* State.                                                                  *)
(***************************************************************************)
VARIABLES
  env_ok,          \* all os.environ[...] keys of the startup block are set
  stopped,         \* st.stop() ended the last script run
  client_inits,    \* number of executions of the body of get_clients
  session_state,   \* st.session_state: a function from its keys
  pc,              \* position of the turn: Idle or the remote call awaited
  prompt,          \* the prompt of the current turn
  llm_output,      \* content returned by the synthesis completion
  sql_query,       \* sql_query of render_floating_chat, None until assigned
  params,          \* params of render_floating_chat
  results,         \* results of render_floating_chat, None until assigned
  sent,            \* messages_for_api of the latest completion request
  store_requests,  \* arguments of the query_items calls of the turn
  calls,           \* remote calls issued in the turn, in order
  raised,          \* stage whose exception reached the except block
  answered,        \* the turn appended its assistant message
  start_len,       \* length of the conversation when the turn began
  turn             \* number of turns begun

startup == << env_ok, stopped, client_inits >>

locals == << prompt, llm_output, sql_query, params, results >>

history == << sent, store_requests, calls, raised, answered, start_len, turn >>

vars == << env_ok, stopped, client_inits, session_state, pc, prompt,
           llm_output, sql_query, params, results, sent, store_requests,
           calls, raised, answered, start_len, turn >>

Stages ==
  { "AwaitingSynthesis", "AwaitingEmbedding", "AwaitingExecution",
    "AwaitingInterpretation" }

HasMessages == "messages" \in DOMAIN session_state

messages == session_state["messages"]

Message(role, content) == [role |-> role, content |-> content]

NoRequest == [system |-> [stage |-> "none"], window |-> << >>]

Init ==
  /\ env_ok \in BOOLEAN
  /\ stopped = FALSE
  /\ client_inits = 0
  /\ session_state = [k \in {} |-> << >>]
  /\ pc = "Idle"
  /\ prompt = ""
  /\ llm_output = None
  /\ sql_query = None
  /\ params = << >>
  /\ results = None
  /\ sent = NoRequest
  /\ store_requests = << >>
  /\ calls = << >>
  /\ raised = "none"
  /\ answered = FALSE
  /\ start_len = 0
  /\ turn = 0

(***************************************************************************)
(* The decisions of the code.                                              *)
(***************************************************************************)
\* a validation that looks for the keyword anywhere in the text
IsValidSelect_anywhere(sql) ==
  Contains(Upper(sql), SELECT)

\* a validation that treats the model's failure string as an error
IsValidSelect_rejectsRefusal(sql) ==
  /\ StartsWith(Upper(sql), SELECT)
  /\ sql # FailureString

\* generate_cosmos_sql: sql_query.upper().startswith("SELECT")
IsValidSelect(sql) ==
  StartsWith(Upper(sql), SELECT)

\* a pipeline that sends the query without waiting for an embedding
NeedsVector_never(sql) ==
  FALSE

\* a detection that ignores the case of the function name
NeedsVector_anyCase(sql) ==
  Contains(Upper(sql), Upper(VectorDistance))

\* render_floating_chat: "VectorDistance" in sql_query
NeedsVector(sql) ==
  Contains(sql, VectorDistance)

\* render_floating_chat: params.append({"name": "@query_vector", ...})
BoundParams(query_vector) ==
  << [name |-> ParamName, value |-> query_vector] >>

\* except block: hasattr(e, 'body') and e.body, then e.body.get(...), which
\* itself raises AttributeError when the body is not a dict
HandlerRaises(e) ==
  /\ e.has_body
  /\ e.body.truthy
  /\ e.body.type # "dict"

\* an initialisation without the "messages" not in st.session_state test
Seed_everyRun(ss) ==
  [messages |-> << Message("assistant", Greeting) >>]

\* the st.session_state.messages initialisation of render_floating_chat
Seed(ss) ==
  IF "messages" \in DOMAIN ss
  THEN ss
  ELSE [messages |-> << Message("assistant", Greeting) >>]

\* st.session_state.messages.append(m)
AppendMessage(ss, m) ==
  [ss EXCEPT !["messages"] = Append(@, m)]

\* a request that carries the whole conversation: chat_history without [-10:]
CompletionRequest_wholeHistory(system, chat_history) ==
  [system |-> system, window |-> chat_history]

\* [{"role": "system", ...}] + chat_history[-10:]
CompletionRequest(system, chat_history) ==
  [system |-> system, window |-> LastTen(chat_history)]

\* the system message of generate_cosmos_sql
SynthesisPrompt ==
  [stage |-> "synthesis"]

\* an interpret_results that reads the message before the last one
InterpretationPrompt_previous(chat_history, sql_result) ==
  [stage |-> "interpretation",
   user_question |-> IF Len(chat_history) >= 2
                     THEN chat_history[Len(chat_history) - 1].content
                     ELSE "the user's question",
   result |-> sql_result]

\* the system message of interpret_results: the last message's content and
\* the serialised result
InterpretationPrompt(chat_history, sql_result) ==
  [stage |-> "interpretation",
   user_question |-> IF chat_history # << >>
                     THEN chat_history[Len(chat_history)].content
                     ELSE "the user's question",
   result |-> sql_result]

\* a get_clients without st.cache_resource: its body runs on every script run
GetClients_uncached(inits) ==
  inits + 1

\* oai_client, container = get_clients() under st.cache_resource: the body
\* runs on the first call of the process only; the result is the number of
\* executions of the body so far
GetClients(inits) ==
  IF inits = 0 THEN 1 ELSE inits

\* a startup block that reports the missing value without st.stop()
ScriptRun_withoutStop ==
  /\ pc = "Idle"
  /\ stopped' = FALSE
  /\ client_inits' = GetClients(client_inits)
  /\ session_state' = Seed(session_state)
  /\ UNCHANGED << env_ok, pc, locals, history >>

(***************************************************************************)
(* One script run without user input: the startup block, the cached        *)
(* get_clients, and render_floating_chat up to the chat input.             *)
(***************************************************************************)
ScriptRun ==
  /\ pc = "Idle"
  /\ IF ~env_ok
     THEN /\ stopped' = TRUE
          /\ UNCHANGED << client_inits, session_state >>
     ELSE /\ stopped' = FALSE
          /\ client_inits' = GetClients(client_inits)
          /\ session_state' = Seed(session_state)
  /\ UNCHANGED << env_ok, pc, locals, history >>

(***************************************************************************)
(* The except block of render_floating_chat and what follows it: the       *)
(* degraded answer is appended unless the block itself raises, in which    *)
(* case the script run ends with the user message as the last message.     *)
(***************************************************************************)
ExceptBlock(stage, e) ==
  /\ raised' = stage
  /\ pc' = "Idle"
  /\ IF HandlerRaises(e)
     THEN /\ answered' = FALSE
          /\ UNCHANGED session_state
     ELSE /\ answered' = TRUE
          /\ session_state' =
               AppendMessage(session_state, Message("assistant", DegradedAnswer))

(***************************************************************************)
(* The user submits a prompt: the script reruns, the user message is       *)
(* appended and generate_cosmos_sql sends the synthesis completion request.*)
(***************************************************************************)
BeginTurn(p) ==
  /\ pc = "Idle"
  /\ env_ok
  /\ HasMessages
  /\ LET seeded == Seed(session_state)
         stored == AppendMessage(seeded, Message("user", p))
     IN  /\ session_state' = stored
         /\ start_len' = Len(seeded["messages"])
         /\ sent' = CompletionRequest(SynthesisPrompt, stored["messages"])
  /\ prompt' = p
  /\ llm_output' = None
  /\ sql_query' = None
  /\ params' = << >>
  /\ results' = None
  /\ store_requests' = << >>
  /\ calls' = << "synthesis" >>
  /\ raised' = "none"
  /\ answered' = FALSE
  /\ turn' = turn + 1
  /\ pc' = "AwaitingSynthesis"
  /\ client_inits' = GetClients(client_inits)
  /\ UNCHANGED << env_ok, stopped >>

Submit(p) ==
  /\ turn < MaxTurns
  /\ BeginTurn(p)

\* container.query_items(sql_query, parameters=params, ...) is called
IssueQuery(sql, ps) ==
  /\ store_requests' = Append(store_requests, [query |-> sql, parameters |-> ps])
  /\ pc' = "AwaitingExecution"

\* a generate_cosmos_sql that asks the model again when validation fails
SynthesisReturns_retry(content) ==
  /\ pc = "AwaitingSynthesis"
  /\ llm_output' = content
  /\ IF content = None
     THEN /\ ExceptBlock("synthesis", AttributeError)
          /\ UNCHANGED << sql_query, params, store_requests, calls >>
     ELSE LET sql == Strip(content)
          IN  IF ~IsValidSelect(sql)
              THEN /\ calls' = Append(calls, "synthesis")
                   /\ UNCHANGED << session_state, pc, raised, answered,
                                   sql_query, params, store_requests >>
              ELSE /\ sql_query' = sql
                   /\ params' = << >>
                   /\ UNCHANGED << session_state, raised, answered >>
                   /\ IF NeedsVector(sql)
                      THEN /\ calls' = Append(calls, "embedding")
                           /\ pc' = "AwaitingEmbedding"
                           /\ UNCHANGED store_requests
                      ELSE /\ calls' = Append(calls, "query")
                           /\ IssueQuery(sql, << >>)
  /\ UNCHANGED << startup, prompt, results, sent, start_len, turn >>

(***************************************************************************)
(* The synthesis completion returns: strip, validation, and the decision   *)
(* whether an embedding is needed.                                         *)
(***************************************************************************)
SynthesisReturns(content) ==
  /\ pc = "AwaitingSynthesis"
  /\ llm_output' = content
  /\ IF content = None
     THEN /\ ExceptBlock("synthesis", AttributeError)
          /\ UNCHANGED << sql_query, params, store_requests, calls >>
     ELSE LET sql == Strip(content)
          IN  IF ~IsValidSelect(sql)
              THEN /\ ExceptBlock("validation", ValueError)
                   /\ UNCHANGED << sql_query, params, store_requests, calls >>
              ELSE /\ sql_query' = sql
                   /\ params' = << >>
                   /\ UNCHANGED << session_state, raised, answered >>
                   /\ IF NeedsVector(sql)
                      THEN /\ calls' = Append(calls, "embedding")
                           /\ pc' = "AwaitingEmbedding"
                           /\ UNCHANGED store_requests
                      ELSE /\ calls' = Append(calls, "query")
                           /\ IssueQuery(sql, << >>)
  /\ UNCHANGED << startup, prompt, results, sent, start_len, turn >>

(***************************************************************************)
(* The embedding request returns: the parameter is bound and the query is  *)
(* sent to the store.                                                      *)
(***************************************************************************)
EmbeddingReturns(query_vector) ==
  /\ pc = "AwaitingEmbedding"
  /\ params' = BoundParams(query_vector)
  /\ calls' = Append(calls, "query")
  /\ IssueQuery(sql_query, BoundParams(query_vector))
  /\ UNCHANGED << startup, session_state, prompt, llm_output, sql_query,
                  results, sent, raised, answered, start_len, turn >>

\* a pipeline that treats an empty result list as a failure
QueryReturns_failsOnEmpty(rows) ==
  /\ pc = "AwaitingExecution"
  /\ results' = rows
  /\ IF rows = << >>
     THEN /\ ExceptBlock("execution", ValueError)
          /\ UNCHANGED << sent, calls >>
     ELSE /\ sent' = CompletionRequest(InterpretationPrompt(messages, rows),
                                       messages)
          /\ calls' = Append(calls, "interpretation")
          /\ pc' = "AwaitingInterpretation"
          /\ UNCHANGED << session_state, raised, answered >>
  /\ UNCHANGED << startup, prompt, llm_output, sql_query, params,
                  store_requests, start_len, turn >>

(***************************************************************************)
(* The store returns the result list: interpret_results sends the          *)
(* interpretation completion request.                                      *)
(***************************************************************************)
QueryReturns(rows) ==
  /\ pc = "AwaitingExecution"
  /\ results' = rows
  /\ sent' = CompletionRequest(InterpretationPrompt(messages, rows), messages)
  /\ calls' = Append(calls, "interpretation")
  /\ pc' = "AwaitingInterpretation"
  /\ UNCHANGED << startup, session_state, prompt, llm_output, sql_query,
                  params, store_requests, raised, answered, start_len, turn >>

(***************************************************************************)
(* The interpretation completion returns: its text is the final answer,    *)
(* appended as the assistant message.                                      *)
(***************************************************************************)
InterpretationReturns(final_answer) ==
  /\ pc = "AwaitingInterpretation"
  /\ session_state' =
       AppendMessage(session_state, Message("assistant", final_answer))
  /\ answered' = TRUE
  /\ pc' = "Idle"
  /\ UNCHANGED << startup, locals, sent, store_requests, calls, raised,
                  start_len, turn >>

(***************************************************************************)
(* The awaited remote call raises: control passes to the except block.     *)
(***************************************************************************)
StageName(position) ==
  CASE position = "AwaitingSynthesis" -> "synthesis"
    [] position = "AwaitingEmbedding" -> "embedding"
    [] position = "AwaitingExecution" -> "execution"
    [] position = "AwaitingInterpretation" -> "interpretation"

Raises(e) ==
  /\ pc \in Stages
  /\ ExceptBlock(StageName(pc), e)
  /\ UNCHANGED << startup, locals, sent, store_requests, calls, start_len,
                  turn >>

RemoteCallCompletes ==
  \/ \E content \in ModelOutputs : SynthesisReturns(content)
  \/ \E query_vector \in Embeddings : EmbeddingReturns(query_vector)
  \/ \E rows \in ResultSets : QueryReturns(rows)
  \/ \E final_answer \in Answers : InterpretationReturns(final_answer)
  \/ \E e \in Exceptions : Raises(e)

Next ==
  \/ ScriptRun
  \/ \E p \in Prompts : Submit(p)
  \/ RemoteCallCompletes

Spec == Init /\ [][Next]_vars

\* every remote call either returns or raises
FairSpec == Spec /\ WF_vars(RemoteCallCompletes)

(***************************************************************************)
(* Vocabulary of the properties.                                           *)
(***************************************************************************)
DELETE ==
  <<
      "D", "E", "L", "E", "T", "E" >>

UPDATE ==
  <<
      "U", "P", "D", "A", "T", "E" >>

INSERT ==
  <<
      "I", "N", "S", "E", "R", "T" >>

UPSERT ==
  <<
      "U", "P", "S", "E", "R", "T" >>

DROP ==
  <<
      "D", "R", "O", "P" >>

MutatingKeywords == { DELETE, UPDATE, INSERT, UPSERT, DROP }

\* number of occurrences of x in seq
Count(seq, x) ==
  Cardinality({i \in 1..Len(seq) : seq[i] = x})

\* the first whitespace-delimited token of s
FirstWord(s) ==
  LET t == Strip(s)
      ws == {i \in 1..Len(t) : t[i] \in Whitespace}
  IN  IF ws = {} THEN t
      ELSE SubSeq(t, 1, (CHOOSE i \in ws : \A j \in ws : i <= j) - 1)

\* the parameter name written in the query text: from the first "@" up to
\* the closing parenthesis, a comma or whitespace
ReferencedParameter(q) ==
  LET ats == {i \in 1..Len(q) : q[i] = "@"}
      at == CHOOSE i \in ats : \A j \in ats : i <= j
      ends == {i \in (at + 1)..Len(q) : q[i] \in Whitespace \cup {")", ","}}
      stop == IF ends = {} THEN Len(q) + 1
              ELSE CHOOSE i \in ends : \A j \in ends : i <= j
  IN  IF ats = {} THEN << >> ELSE SubSeq(q, at, stop - 1)

TurnEnded == pc = "Idle" /\ turn > 0

(***************************************************************************)
(* C1: at the end of every turn, whatever each stage returned or raised,   *)
(* the stored conversation is exactly two messages longer than when the    *)
(* turn began: one user message followed by one assistant message.         *)
(***************************************************************************)
TurnAddsUserAndAssistant ==
  TurnEnded =>
    /\ Len(messages) = start_len + 2
    /\ messages[start_len + 1].role = "user"
    /\ messages[start_len + 2].role = "assistant"

(***************************************************************************)
(* C2: every query string passed to container.query_items begins with      *)
(* SELECT, case-insensitively, and contains no data-mutating keyword.      *)
(***************************************************************************)
OnlyReadOnlyQueriesReachStore ==
  \A i \in 1..Len(store_requests) :
    LET q == Upper(store_requests[i].query)
    IN  /\ StartsWith(q, SELECT)
        /\ \A k \in MutatingKeywords : ~Contains(q, k)

(***************************************************************************)
(* C3: when the stripped, upper-cased model output does not start with     *)
(* SELECT, the turn ends in the validation error: no embedding request is  *)
(* made and query_items is never called in that turn.                      *)
(***************************************************************************)
RejectedOutputNeverReachesExecutor ==
  (llm_output # None /\ ~StartsWith(Upper(Strip(llm_output)), SELECT)) =>
    /\ raised = "validation"
    /\ sql_query = None
    /\ calls = << "synthesis" >>
    /\ store_requests = << >>
    /\ params = << >>

RejectedOutputWitness ==
  /\ llm_output = OutFenced
  /\ raised = "validation"
  /\ pc = "Idle"
  /\ answered

(***************************************************************************)
(* C4: validation accepts the model output if and only if the first        *)
(* whitespace-delimited word of the stripped text, compared                *)
(* case-insensitively, equals SELECT.                                      *)
(***************************************************************************)
AcceptsIffFirstWordIsSelect ==
  llm_output # None =>
    ((sql_query # None) <=> (Upper(FirstWord(llm_output)) = SELECT))

(***************************************************************************)
(* C5: for a validated candidate, an embedding is requested (once) and a   *)
(* parameter is passed to the store query (one) exactly when the candidate *)
(* contains the substring VectorDistance; otherwise there is no embedding  *)
(* request and no parameter.                                               *)
(***************************************************************************)
ParameterBoundIffVectorDistance ==
  sql_query # None =>
    LET n == IF Contains(sql_query, VectorDistance) THEN 1 ELSE 0
    IN  /\ Count(calls, "embedding") = n
        /\ Len(params) <= n
        /\ \A i \in 1..Len(store_requests) :
             /\ store_requests[i].query = sql_query
             /\ Len(store_requests[i].parameters) = n
             /\ store_requests[i].parameters = params

ParameterBoundWitness ==
  /\ sql_query = OutVector
  /\ Len(store_requests) = 1
  /\ Len(store_requests[1].parameters) = 1
  /\ Count(calls, "embedding") = 1
  /\ TurnEnded
  /\ raised = "none"

(***************************************************************************)
(* C6: the name of the parameter bound for a candidate containing          *)
(* VectorDistance is the parameter name the candidate's text references.   *)
(***************************************************************************)
BoundNameIsReferencedName ==
  \A i \in 1..Len(store_requests) :
    Contains(store_requests[i].query, VectorDistance) =>
      /\ Len(store_requests[i].parameters) = 1
      /\ store_requests[i].parameters[1].name =
           ReferencedParameter(store_requests[i].query)

(***************************************************************************)
(* C7: a turn in which a stage failed ends with the fixed degraded answer  *)
(* as its assistant message, whichever stage failed and whatever the       *)
(* exception carried.                                                      *)
(***************************************************************************)
FailedTurnStoresDegradedAnswer ==
  (TurnEnded /\ raised # "none") =>
    messages[Len(messages)] = Message("assistant", DegradedAnswer)

(***************************************************************************)
(* C8: every turn that has left Idle eventually returns to Idle with its   *)
(* assistant message appended.                                             *)
(***************************************************************************)
TurnEventuallyAnswered ==
  \A t \in 1..MaxTurns :
    (turn = t /\ pc # "Idle") ~> (turn = t /\ pc = "Idle" /\ answered)

(***************************************************************************)
(* C9: within a turn each kind of remote call is made at most once, and    *)
(* once a stage has raised no further remote call is made in that turn.    *)
(***************************************************************************)
NoStageRetried ==
  /\ [](\A k \in {"synthesis", "embedding", "query", "interpretation"} :
          Count(calls, k) <= 1)
  /\ [](raised # "none" => pc = "Idle")
  /\ [][(raised # "none" /\ turn' = turn) => calls' = calls]_vars

NoStageRetriedWitness ==
  /\ raised = "validation"
  /\ llm_output = OutPrefixed
  /\ calls = << "synthesis" >>
  /\ TurnEnded

(***************************************************************************)
(* C10: when the model returns the failure string of the system prompt,    *)
(* validation passes, the string is sent to the store with no parameter    *)
(* and without an embedding request, the store's result is what            *)
(* interpretation receives, and the degraded answer can only come from a   *)
(* remote call that raised, never from the string itself.                  *)
(***************************************************************************)
RefusalTakesSuccessPath ==
  llm_output = FailureString =>
    /\ sql_query = FailureString
    /\ raised \in {"none", "execution", "interpretation"}
    /\ Count(calls, "embedding") = 0
    /\ store_requests = << [query |-> FailureString, parameters |-> << >>] >>
    /\ Count(calls, "interpretation") = 1 =>
         /\ sent.system.stage = "interpretation"
         /\ sent.system.result = results
    /\ (TurnEnded /\ raised = "none") =>
         /\ answered
         /\ messages[Len(messages)].role = "assistant"
         /\ messages[Len(messages)].content \in Answers

RefusalWitness ==
  /\ llm_output = FailureString
  /\ results = << "row" >>
  /\ TurnEnded
  /\ raised = "none"
  /\ answered

(***************************************************************************)
(* C11: an empty result list from the store is not an error: the turn      *)
(* goes on to interpretation with the empty list, nothing is raised        *)
(* because of the emptiness, and the assistant message stored is the       *)
(* interpreter's text.                                                     *)
(***************************************************************************)
EmptyResultIsInterpreted ==
  results = << >> =>
    /\ Count(calls, "interpretation") = 1
    /\ sent.system.stage = "interpretation"
    /\ sent.system.result = << >>
    /\ raised \in {"none", "interpretation"}
    /\ pc \in {"AwaitingInterpretation", "Idle"}
    /\ (pc = "Idle" /\ raised = "none") =>
         /\ answered
         /\ messages[Len(messages)].role = "assistant"
         /\ messages[Len(messages)].content \in Answers
         /\ messages[Len(messages)].content # DegradedAnswer

EmptyResultWitness ==
  /\ results = << >>
  /\ TurnEnded
  /\ raised = "none"
  /\ answered
  /\ messages[Len(messages)].content = "No data was found."

(***************************************************************************)
(* A long session: the same program with one distinct prompt per turn and  *)
(* fewer kinds of reply, so that the conversation grows past the window of *)
(* ten messages.                                                           *)
(***************************************************************************)
LongPrompts ==
  << "question 1", "question 2", "question 3", "question 4", "question 5",
     "question 6", "question 7", "question 8", "question 9" >>

LongOutputs == { OutAggregate, OutVector, OutPrefixed }

LongAnswers == { "There were 42 events." }

LongExceptions ==
  { [has_body |-> FALSE, body |-> NoBody],
    [has_body |-> TRUE, body |-> [type |-> "str", truthy |-> TRUE]] }

SubmitInLongSession ==
  /\ turn < MaxLongTurns
  /\ turn < Len(LongPrompts)
  /\ BeginTurn(LongPrompts[turn + 1])

NextLong ==
  \/ ScriptRun
  \/ SubmitInLongSession
  \/ \E content \in LongOutputs : SynthesisReturns(content)
  \/ \E query_vector \in Embeddings : EmbeddingReturns(query_vector)
  \/ \E rows \in ResultSets : QueryReturns(rows)
  \/ \E final_answer \in LongAnswers : InterpretationReturns(final_answer)
  \/ \E e \in LongExceptions : Raises(e)

SpecLong == Init /\ [][NextLong]_vars

(***************************************************************************)
(* C12: the user message is appended before synthesis begins: the message  *)
(* list of the synthesis completion request ends with the current turn's   *)
(* user message, also when the conversation is longer than the window.     *)
(***************************************************************************)
SynthesisSeesTriggerMessage ==
  pc = "AwaitingSynthesis" =>
    /\ sent.system.stage = "synthesis"
    /\ messages[Len(messages)] = Message("user", prompt)
    /\ Len(messages) = start_len + 1
    /\ sent.window # << >>
    /\ sent.window[Len(sent.window)] = Message("user", prompt)

SynthesisSeesTriggerWitness ==
  /\ pc = "AwaitingSynthesis"
  /\ Len(messages) > WindowSize
  /\ prompt = LongPrompts[MaxLongTurns]

(***************************************************************************)
(* C13: the stored conversation is append-only: each value of the list is  *)
(* a prefix of the next one, its first element is always the seed          *)
(* greeting, a script rerun never reseeds it, and sending a completion     *)
(* request (building the window) stores nothing but the turn's user        *)
(* message.                                                                *)
(***************************************************************************)
IsPrefix(s, t) ==
  /\ Len(s) <= Len(t)
  /\ SubSeq(t, 1, Len(s)) = s

ConversationIsAppendOnly ==
  /\ [](HasMessages => messages[1] = Message("assistant", Greeting))
  /\ [][HasMessages =>
          /\ "messages" \in DOMAIN session_state'
          /\ IsPrefix(messages, session_state'["messages"])]_vars
  /\ [][(pc = "Idle" /\ pc' = "Idle" /\ HasMessages) =>
          session_state' = session_state]_vars
  /\ [][(pc = "Idle" /\ pc' = "AwaitingSynthesis") =>
          session_state'["messages"] =
            Append(messages, Message("user", prompt'))]_vars
  /\ [][(pc = "AwaitingExecution" /\ pc' = "AwaitingInterpretation") =>
          session_state' = session_state]_vars

ConversationGrownWitness ==
  /\ TurnEnded
  /\ Len(messages) >= 5
  /\ \E i \in 1..Len(messages) : messages[i].content = DegradedAnswer
  /\ \E i \in 1..Len(messages) : messages[i].content \in Answers
  /\ messages[1] = Message("assistant", Greeting)

(***************************************************************************)
(* C14: turns never overlap and a user message is appended only after the  *)
(* previous turn appended its assistant message: the stored conversation   *)
(* alternates assistant, user, assistant, ... from the seed greeting on    *)
(* and never holds two consecutive user messages.                          *)
(***************************************************************************)
ConversationAlternates ==
  HasMessages =>
    \A i \in 1..Len(messages) :
      messages[i].role = IF i % 2 = 1 THEN "assistant" ELSE "user"

(***************************************************************************)
(* C15: when a required environment value is missing the script halts      *)
(* before serving any turn: no client handle is initialised, no            *)
(* conversation is seeded, no input is accepted and no remote call is made.*)
(***************************************************************************)
MissingEnvironmentServesNothing ==
  ~env_ok =>
    /\ client_inits = 0
    /\ ~HasMessages
    /\ turn = 0
    /\ pc = "Idle"
    /\ calls = << >>
    /\ store_requests = << >>
    /\ sent = NoRequest

MissingEnvironmentWitness ==
  /\ ~env_ok
  /\ stopped

(***************************************************************************)
(* C16: the client handles are initialised at most once per process: over  *)
(* any number of script reruns and turns the body of get_clients runs      *)
(* once, and every turn uses the handles of that one initialisation.       *)
(***************************************************************************)
ClientsInitialisedOnce ==
  /\ [](client_inits <= 1)
  /\ [](turn > 0 => client_inits = 1)
  /\ [][client_inits = 1 => client_inits' = 1]_vars

ClientsReusedWitness ==
  /\ client_inits = 1
  /\ turn >= 2
  /\ TurnEnded

(***************************************************************************)
(* C17: the remote calls of a turn are made in the order synthesis,        *)
(* embedding (only when required), store query, interpretation: the store  *)
(* query is issued only after validation passed and, for a candidate that  *)
(* needs a vector, after the embedding was returned; interpretation is     *)
(* called only after the store returned a result list.                     *)
(***************************************************************************)
CallsInFixedOrder ==
  /\ \/ IsPrefix(calls, << "synthesis", "embedding", "query", "interpretation" >>)
     \/ IsPrefix(calls, << "synthesis", "query", "interpretation" >>)
  /\ Count(calls, "embedding") >= 1 =>
       /\ sql_query # None
       /\ Contains(sql_query, VectorDistance)
  /\ Count(calls, "query") >= 1 =>
       /\ sql_query # None
       /\ StartsWith(Upper(sql_query), SELECT)
       /\ Contains(sql_query, VectorDistance) =>
            /\ calls[2] = "embedding"
            /\ Len(params) = 1
            /\ params[1].value \in Embeddings
  /\ Count(calls, "interpretation") >= 1 =>
       /\ Count(calls, "query") = 1
       /\ results \in ResultSets

CallsInFixedOrderWitness ==
  /\ calls = << "synthesis", "embedding", "query", "interpretation" >>
  /\ TurnEnded
  /\ raised = "none"
  /\ answered

(***************************************************************************)
(* C18: the question that interpret_results embeds in its instruction      *)
(* block is the content of the current turn's user message: when           *)
(* interpretation is invoked the last stored message has role user and is  *)
(* the turn's prompt, after any history of successful and failed turns.    *)
(***************************************************************************)
InterpretationEmbedsCurrentQuestion ==
  pc = "AwaitingInterpretation" =>
    /\ sent.system.stage = "interpretation"
    /\ sent.system.user_question = prompt
    /\ messages[Len(messages)] = Message("user", prompt)
    /\ Len(messages) = start_len + 1

InterpretationAfterFailedTurnWitness ==
  /\ pc = "AwaitingInterpretation"
  /\ turn >= 3
  /\ messages[Len(messages) - 1].role = "user"
  /\ \E i \in 1..Len(messages) : messages[i].content \in Answers

(***************************************************************************)
(* C19: each completion request carries one system message followed by the *)
(* last min(10, n) of the n stored messages, in order and unmodified, so   *)
(* never more than 11 messages; synthesis and interpretation of one turn   *)
(* carry the same window.                                                  *)
(***************************************************************************)
RequestCarriesLastTenMessages ==
  /\ [](pc \in {"AwaitingSynthesis", "AwaitingInterpretation"} =>
          LET n == Len(messages)
              k == IF n < 10 THEN n ELSE 10
          IN  /\ sent.system.stage =
                   IF pc = "AwaitingSynthesis" THEN "synthesis"
                   ELSE "interpretation"
              /\ Len(sent.window) = k
              /\ 1 + Len(sent.window) <= 11
              /\ \A i \in 1..k : sent.window[i] = messages[n - k + i]
              /\ \A i \in 1..k : sent.window[i].role \in {"user", "assistant"})
  /\ [][(pc = "AwaitingExecution" /\ pc' = "AwaitingInterpretation") =>
          /\ sent.system.stage = "synthesis"
          /\ sent'.system.stage = "interpretation"
          /\ sent'.window = sent.window]_vars

TruncatedWindowWitness ==
  /\ pc = "AwaitingInterpretation"
  /\ Len(messages) = 12
  /\ Len(sent.window) = 10
  /\ sent.window[1] = messages[3]
  /\ sent.window[10] = Message("user", LongPrompts[MaxLongTurns])

====
